---- MODULE Spec2Model ----
(***************************************************************************)
(* Half-edge B-rep mesh kernel of cst-topology (crates/cst-topology/src/   *)
(* halfedge): the arena tables of Mesh, the constructive operations        *)
(* add_vertex, make_edge, make_face, make_triangle, and validate().        *)
(*                                                                         *)
(* A SlotMap without removals hands out slot indices in insertion order    *)
(* and iterates in slot order, so a table is a sequence and a handle is    *)
(* the position of its entity in it. Option<Id> is an Id or None (0).      *)
(***************************************************************************)
EXTENDS Integers, Sequences, FiniteSets, TLC

\* ------------------------------------------------------------------ bounds
\* Spec: any arguments.
MaxVertices == 3
MaxEdges == 3
MaxFaces == 2
MaxFaceLen == 3
\* SpecManifold: make_edge(v1 # v2) and vertex lists without repeats.
ManifoldEdges == 4
\* SpecFaces: faces built on bare vertices, vertex lists without repeats.
FacesVertices == 4
FacesEdges == 5
FacesFaceLen == 4
\* SpecRepeats: one face from a longer list of vertices of the mesh, which
\* may repeat.
RepeatsVertices == 3
RepeatsEdges == 3
RepeatsFaces == 1
RepeatsFaceLen == 5
\* SpecBox: vertices with positions, of coordinates -BoxCoord or BoxCoord.
BoxVertices == 3
BoxEdges == 3
BoxFaces == 1
BoxCoord == 1
\* SpecKnots: knot vectors with whole-number knots 0..KnotsMaxValue, and
\* parameters from one below to one above them.
KnotsMaxDegree == 2
KnotsMaxN == 3
KnotsMaxValue == 3

\* ------------------------------------------------------------- data model
None == 0

\* The handles a caller may pass: those a mesh of at most nv vertices issues
\* and one it never issued.
VertexIds(nv) == 1..(nv + 1)

\* The vertex lists a caller may pass to make_face: every list of at most
\* maxLen handles.
FaceLists(nv, maxLen) == UNION {[1..k -> VertexIds(nv)] : k \in 0..maxLen}

NoRepeat(vertices) ==
    \A i, j \in 1..Len(vertices) : i # j => vertices[i] # vertices[j]

Vertex(he) == [halfedge |-> he]

HalfEdge(origin, twin) ==
    [origin |-> origin, twin |-> twin, next |-> None, prev |-> None,
     face |-> None, edge |-> None, loop_id |-> None]

Edge(a, b) == [halfedge_a |-> a, halfedge_b |-> b]

Loop(he, f) == [halfedge |-> he, face |-> f]

Face(lp) == [outer_loop |-> lp, inner_loops |-> <<>>, surface_reversed |-> FALSE]

\* Mesh::new
NewMesh ==
    [vertices |-> <<>>, halfedges |-> <<>>, edges |-> <<>>,
     loops |-> <<>>, faces |-> <<>>]

VARIABLES mesh, pre, last

vars == <<mesh, pre, last>>

\* SlotMap::contains_key / SlotMap::get on each table
contains_key(table, id) == id \in 1..Len(table)

\* Result<T>: Ok, or a CstError variant with its message.
Ok == [kind |-> "Ok", msg |-> ""]

Topology(msg) == [kind |-> "Topology", msg |-> msg]

\* Faulty variant: the unknown-handle error raised as the wrong variant.
NotFoundAsTopology(msg) == [kind |-> "Topology", msg |-> msg]

NotFound(msg) == [kind |-> "NotFound", msg |-> msg]

\* What a call leaves: the mesh, the Result's variant and the handle in Ok.
Result(m, res, ret) == [mesh |-> m, res |-> res, ret |-> ret]

\* ------------------------------------------------------------- add_vertex
add_vertex(m) ==
    Result([m EXCEPT !.vertices = Append(@, Vertex(None))],
           Ok, Len(m.vertices) + 1)

\* --------------------------------------------------------------- make_edge
\* Lines 42-70: the two half-edges as they stand once the edge is inserted.
\* Faulty variant: line 62 left out, the first half-edge never learns its twin.
one_way_twins(v1, v2, he_a, he_b, edge_id) ==
    << [HalfEdge(v1, None) EXCEPT !.edge = edge_id],
       [HalfEdge(v2, he_a) EXCEPT !.edge = edge_id] >>

\* Faulty variant: line 70 left out, the second half-edge never learns its edge.
twins_edge_unset(v1, v2, he_a, he_b, edge_id) ==
    << [HalfEdge(v1, he_b) EXCEPT !.edge = edge_id],
       HalfEdge(v2, he_a) >>

\* Faulty variant: the first half-edge's twin is set to the slot after the
\* second half-edge.
twins_off_by_one(v1, v2, he_a, he_b, edge_id) ==
    << [HalfEdge(v1, he_b + 1) EXCEPT !.edge = edge_id],
       [HalfEdge(v2, he_a) EXCEPT !.edge = edge_id] >>

\* Faulty variant: the second half-edge starts at v1 as well.
twins_same_origin(v1, v2, he_a, he_b, edge_id) ==
    << [HalfEdge(v1, he_b) EXCEPT !.edge = edge_id],
       [HalfEdge(v1, he_a) EXCEPT !.edge = edge_id] >>

twinned_halfedges(v1, v2, he_a, he_b, edge_id) ==
    << [HalfEdge(v1, he_b) EXCEPT !.edge = edge_id],
       [HalfEdge(v2, he_a) EXCEPT !.edge = edge_id] >>

\* Faulty variant: the is_none() test left out, the outgoing half-edge is
\* always assigned.
outgoing_overwritten(vertices, v, he) ==
    [vertices EXCEPT ![v].halfedge = he]

\* Lines 73-75 and 76-78: the vertex table after one of the two conditional
\* assignments of an outgoing half-edge.
outgoing_if_none(vertices, v, he) ==
    IF vertices[v].halfedge = None
    THEN [vertices EXCEPT ![v].halfedge = he]
    ELSE vertices

make_edge(m, v1, v2) ==
    IF ~contains_key(m.vertices, v1) \/ ~contains_key(m.vertices, v2)
    THEN Result(m, NotFound("Vertex not found"), None)
    ELSE
      LET he_a == Len(m.halfedges) + 1
          he_b == Len(m.halfedges) + 2
          edge_id == Len(m.edges) + 1
          hes == m.halfedges \o twinned_halfedges(v1, v2, he_a, he_b, edge_id)
          vs1 == outgoing_if_none(m.vertices, v1, he_a)
          vs2 == outgoing_if_none(vs1, v2, he_b)
      IN Result([m EXCEPT !.vertices = vs2,
                          !.halfedges = hes,
                          !.edges = Append(@, Edge(he_a, he_b))],
                Ok, edge_id)

\* ---------------------------------------------------------- find_halfedge
\* The first half-edge, in slot order, from `origin` whose twin starts at
\* `target`; None when there is none.
HalfEdgeRuns(m, h, origin, target) ==
    /\ m.halfedges[h].origin = origin
    /\ m.halfedges[h].twin # None
    /\ m.halfedges[m.halfedges[h].twin].origin = target

\* Faulty variant: the scan matches a half-edge between the two vertices in either
\* direction.
find_halfedge_any_direction(m, origin, target) ==
    LET hits == {h \in 1..Len(m.halfedges) :
                   \/ HalfEdgeRuns(m, h, origin, target)
                   \/ HalfEdgeRuns(m, h, target, origin)}
    IN IF hits = {} THEN None
       ELSE CHOOSE h \in hits : \A g \in hits : h <= g

\* Faulty variant: the scan keeps the last match instead of returning the first.
find_halfedge_last(m, origin, target) ==
    LET hits == {h \in 1..Len(m.halfedges) : HalfEdgeRuns(m, h, origin, target)}
    IN IF hits = {} THEN None
       ELSE CHOOSE h \in hits : \A g \in hits : h >= g

\* Faulty variant: the scan compares the origin only, not the twin's origin.
find_halfedge_by_origin(m, origin, target) ==
    LET hits == {h \in 1..Len(m.halfedges) : m.halfedges[h].origin = origin}
    IN IF hits = {} THEN None
       ELSE CHOOSE h \in hits : \A g \in hits : h <= g

find_halfedge(m, origin, target) ==
    LET hits == {h \in 1..Len(m.halfedges) : HalfEdgeRuns(m, h, origin, target)}
    IN IF hits = {} THEN None
       ELSE CHOOSE h \in hits : \A g \in hits : h <= g

\* --------------------------------------------------------------- make_face
\* Faulty variant: the length test off by one.
MinFaceVerticesTwo == 3 - 1

\* Line 87: the least number of vertices of a face.
MinFaceVertices == 3

\* Faulty variant: the handles are not checked before the loop (make_edge's own check
\* is then the first to see an unknown one).
vertices_unchecked(m, vertices) == TRUE

\* Lines 93-97: every handle of the list is in the vertex table.
vertices_known(m, vertices) ==
    \A i \in 1..Len(vertices) : contains_key(m.vertices, vertices[i])

\* Faulty variant: the non-manifold test never fires.
never_has_face(m, he) == FALSE

\* Lines 111 and 126: self.halfedges[he].face.is_some()
has_face(m, he) == m.halfedges[he].face # None

\* The loop of lines 102-145: the half-edge of each consecutive pair, found
\* or created. i is the 1-based position of v_from in `vertices`.
RECURSIVE resolve_halfedges(_, _, _, _)
resolve_halfedges(m, vertices, i, face_halfedges) ==
    IF i > Len(vertices)
    THEN [mesh |-> m, res |-> Ok, face_halfedges |-> face_halfedges]
    ELSE
      LET v_from == vertices[i]
          v_to == vertices[(i % Len(vertices)) + 1]
          existing_he == find_halfedge(m, v_from, v_to)
          reverse_he == find_halfedge(m, v_to, v_from)
          fail(mm, err) ==
              [mesh |-> mm, res |-> err, face_halfedges |-> face_halfedges]
          non_manifold ==
              Topology("Half-edge already belongs to a face (non-manifold)")
      IN IF existing_he # None
         THEN IF has_face(m, existing_he)
              THEN fail(m, non_manifold)
              ELSE resolve_halfedges(m, vertices, i + 1,
                                     Append(face_halfedges, existing_he))
         ELSE IF reverse_he # None
         THEN LET twin == m.halfedges[reverse_he].twin
              IN IF twin # None
                 THEN IF has_face(m, twin)
                      THEN fail(m, non_manifold)
                      ELSE resolve_halfedges(m, vertices, i + 1,
                                             Append(face_halfedges, twin))
                 ELSE fail(m, Topology("Edge exists but twin is missing"))
         ELSE LET r == make_edge(m, v_from, v_to)
              IN IF r.res # Ok
                 THEN fail(r.mesh, r.res)
                 ELSE resolve_halfedges(
                        r.mesh, vertices, i + 1,
                        Append(face_halfedges, r.mesh.edges[r.ret].halfedge_a))

\* Faulty variant: line 168 left out, prev is never assigned.
linked_without_prev(he, next_he, prev_he, face_id, loop_id) ==
    [he EXCEPT !.next = next_he, !.face = face_id, !.loop_id = loop_id]

\* Faulty variant: next and prev assigned the wrong way round.
linked_backwards(he, next_he, prev_he, face_id, loop_id) ==
    [he EXCEPT !.next = prev_he, !.prev = next_he,
               !.face = face_id, !.loop_id = loop_id]

\* Lines 167-170: a half-edge with its four face-loop fields assigned.
linked(he, next_he, prev_he, face_id, loop_id) ==
    [he EXCEPT !.next = next_he, !.prev = prev_he,
               !.face = face_id, !.loop_id = loop_id]

\* The loop of lines 162-171 over positions i..last of face_halfedges, one
\* group of four assignments per position, in order.
RECURSIVE link_from(_, _, _, _, _, _)
link_from(halfedges, face_halfedges, i, last_i, face_id, loop_id) ==
    IF i > last_i
    THEN halfedges
    ELSE
      LET n == Len(face_halfedges)
          he == face_halfedges[i]
          next_he == face_halfedges[(i % n) + 1]
          prev_he == face_halfedges[((n + i - 2) % n) + 1]
      IN link_from(
           [halfedges EXCEPT
              ![he] = linked(@, next_he, prev_he, face_id, loop_id)],
           face_halfedges, i + 1, last_i, face_id, loop_id)

\* Faulty variant: the linking loop stops one position early.
link_halfedges_short(halfedges, face_halfedges, face_id, loop_id) ==
    link_from(halfedges, face_halfedges, 1, Len(face_halfedges) - 1,
              face_id, loop_id)

\* Faulty variant: the successor of the last position wraps to the second
\* position instead of the first.
link_halfedges_late_wrap(halfedges, face_halfedges, face_id, loop_id) ==
    [link_from(halfedges, face_halfedges, 1, Len(face_halfedges),
               face_id, loop_id)
       EXCEPT ![face_halfedges[Len(face_halfedges)]].next = face_halfedges[2]]

link_halfedges(halfedges, face_halfedges, face_id, loop_id) ==
    link_from(halfedges, face_halfedges, 1, Len(face_halfedges),
              face_id, loop_id)

make_face(m, vertices) ==
    IF Len(vertices) < MinFaceVertices
    THEN Result(m, Topology("A face requires at least 3 vertices"), None)
    ELSE IF ~vertices_known(m, vertices)
    THEN Result(m, NotFound("Vertex not found"), None)
    ELSE
      LET r == resolve_halfedges(m, vertices, 1, <<>>)
          loop_id == Len(r.mesh.loops) + 1
          face_id == Len(r.mesh.faces) + 1
      IN IF r.res # Ok
         THEN Result(r.mesh, r.res, None)
         ELSE Result(
                [r.mesh EXCEPT
                   !.loops = Append(@, Loop(r.face_halfedges[1], face_id)),
                   !.faces = Append(@, Face(loop_id)),
                   !.halfedges = link_halfedges(@, r.face_halfedges,
                                                face_id, loop_id)],
                Ok, face_id)

\* ----------------------------------------------------------- make_triangle
make_triangle(m, v1, v2, v3) == make_face(m, <<v1, v2, v3>>)

\* -------------------------------------------------------------- edge_faces
\* Faulty variant: both sides read from halfedge_a.
edge_faces_one_side(m, edge_id) ==
    IF ~contains_key(m.edges, edge_id)
    THEN <<None, None>>
    ELSE
      LET edge == m.edges[edge_id]
          face_a == IF contains_key(m.halfedges, edge.halfedge_a)
                    THEN m.halfedges[edge.halfedge_a].face ELSE None
      IN <<face_a, face_a>>

edge_faces(m, edge_id) ==
    IF ~contains_key(m.edges, edge_id)
    THEN <<None, None>>
    ELSE
      LET edge == m.edges[edge_id]
          face_a == IF contains_key(m.halfedges, edge.halfedge_a)
                    THEN m.halfedges[edge.halfedge_a].face ELSE None
          face_b == IF contains_key(m.halfedges, edge.halfedge_b)
                    THEN m.halfedges[edge.halfedge_b].face ELSE None
      IN <<face_a, face_b>>

\* --------------------------------------------------------- halfedge_target
halfedge_target(m, he_id) ==
    IF ~contains_key(m.halfedges, he_id) THEN None
    ELSE IF m.halfedges[he_id].twin = None THEN None
    ELSE IF ~contains_key(m.halfedges, m.halfedges[he_id].twin) THEN None
    ELSE m.halfedges[m.halfedges[he_id].twin].origin

\* --------------------------------------------------------------- iterators
\* FaceHalfEdgeIter::new, VertexOutgoingIter::new: the fields of a fresh
\* iterator (the mesh it borrows is passed to next).
IterNew(start) == [start |-> start, current |-> start, started |-> FALSE]

\* One call of an iterator's next(): the item it returns (None at the end)
\* and the iterator as the call leaves it.
IterStep(item, it) == [item |-> item, it |-> it]

\* FaceHalfEdgeIter::next
FaceHalfEdgeIter_next(m, it) ==
    LET cur == it.current
    IN IF cur = None THEN IterStep(None, it)
       ELSE IF it.started /\ cur = it.start THEN IterStep(None, it)
       ELSE IF ~contains_key(m.halfedges, cur)
       THEN IterStep(None, [it EXCEPT !.started = TRUE])
       ELSE IterStep(cur, [it EXCEPT !.started = TRUE,
                                     !.current = m.halfedges[cur].next])

\* Faulty variant: the iterator follows next without crossing to the twin.
VertexOutgoingIter_next_same_side(m, it) ==
    LET cur == it.current
        started == [it EXCEPT !.started = TRUE]
    IN IF cur = None THEN IterStep(None, it)
       ELSE IF it.started /\ cur = it.start THEN IterStep(None, it)
       ELSE IF ~contains_key(m.halfedges, cur) THEN IterStep(None, started)
       ELSE IterStep(cur, [started EXCEPT !.current = m.halfedges[cur].next])

\* VertexOutgoingIter::next
VertexOutgoingIter_next(m, it) ==
    LET cur == it.current
        started == [it EXCEPT !.started = TRUE]
    IN IF cur = None THEN IterStep(None, it)
       ELSE IF it.started /\ cur = it.start THEN IterStep(None, it)
       ELSE IF ~contains_key(m.halfedges, cur) THEN IterStep(None, started)
       ELSE LET twin_id == m.halfedges[cur].twin
            IN IF twin_id = None THEN IterStep(None, started)
               ELSE IF ~contains_key(m.halfedges, twin_id)
               THEN IterStep(None, started)
               ELSE IterStep(cur, [started EXCEPT
                                     !.current = m.halfedges[twin_id].next])

\* Mesh::face_halfedges, Mesh::face_vertices: the iterator over face_id's
\* outer loop, None for an unknown face or loop.
face_halfedges(m, face_id) ==
    IF ~contains_key(m.faces, face_id) THEN None
    ELSE IF ~contains_key(m.loops, m.faces[face_id].outer_loop) THEN None
    ELSE IterNew(m.loops[m.faces[face_id].outer_loop].halfedge)

\* Mesh::vertex_outgoing: None for an unknown vertex or one without an
\* outgoing half-edge.
vertex_outgoing(m, vertex_id) ==
    IF ~contains_key(m.vertices, vertex_id) THEN None
    ELSE IF m.vertices[vertex_id].halfedge = None THEN None
    ELSE IterNew(m.vertices[vertex_id].halfedge)

\* A caller draining an iterator (collect): the items of at most `calls`
\* calls of next(), and whether next() returned None within them.
RECURSIVE face_halfedges_collect(_, _, _, _)
face_halfedges_collect(m, it, calls, items) ==
    IF calls = 0 THEN [items |-> items, ended |-> FALSE]
    ELSE LET s == FaceHalfEdgeIter_next(m, it)
         IN IF s.item = None THEN [items |-> items, ended |-> TRUE]
            ELSE face_halfedges_collect(m, s.it, calls - 1,
                                        Append(items, s.item))

RECURSIVE vertex_outgoing_collect(_, _, _, _)
vertex_outgoing_collect(m, it, calls, items) ==
    IF calls = 0 THEN [items |-> items, ended |-> FALSE]
    ELSE LET s == VertexOutgoingIter_next(m, it)
         IN IF s.item = None THEN [items |-> items, ended |-> TRUE]
            ELSE vertex_outgoing_collect(m, s.it, calls - 1,
                                         Append(items, s.item))

\* FaceVertexIter::next projects each half-edge of the inner iterator to its
\* origin (the handle it yields is always in the table).
face_vertices(m, face_id) == face_halfedges(m, face_id)

face_vertices_collect(m, it, calls) ==
    LET r == face_halfedges_collect(m, it, calls, <<>>)
    IN [items |-> [i \in 1..Len(r.items) |-> m.halfedges[r.items[i]].origin],
        ended |-> r.ended]

\* ------------------------------------------------------------ bounding_box
\* An f64 that is a number, or one of the two infinities: <<0, x>> is x,
\* <<1, 0>> is INFINITY and <<-1, 0>> is NEG_INFINITY.
Finite(x) == <<0, x>>

INFINITY == <<1, 0>>

NEG_INFINITY == <<-1, 0>>

f64_lt(a, b) == a[1] < b[1] \/ (a[1] = 0 /\ b[1] = 0 /\ a[2] < b[2])

\* f64::min and f64::max (on values that are not NaN)
f64_min(a, b) == IF f64_lt(b, a) THEN b ELSE a

f64_max(a, b) == IF f64_lt(a, b) THEN b ELSE a

\* Point3: ZERO, splat and the componentwise min and max.
ZERO == <<Finite(0), Finite(0), Finite(0)>>

splat(v) == <<v, v, v>>

point_min(p, q) == [k \in 1..3 |-> f64_min(p[k], q[k])]

point_max(p, q) == [k \in 1..3 |-> f64_max(p[k], q[k])]

\* Mesh::add_vertex(position) on a mesh whose vertices carry their position
\* (the other operations neither read nor change it).
add_vertex_at(m, position) ==
    Result([m EXCEPT !.vertices =
              Append(@, [halfedge |-> None, position |-> position])],
           Ok, Len(m.vertices) + 1)

\* Faulty variant: the running minimum and maximum start at the origin.
box_start_zero == <<ZERO, ZERO>>

\* Lines 14-15: the running minimum and maximum before the loop.
box_start == <<splat(INFINITY), splat(NEG_INFINITY)>>

\* Lines 17-20: the loop over the vertices from slot i on.
RECURSIVE box_fold(_, _, _, _)
box_fold(vertices, i, min, max) ==
    IF i > Len(vertices) THEN <<min, max>>
    ELSE box_fold(vertices, i + 1,
                  point_min(min, vertices[i].position),
                  point_max(max, vertices[i].position))

bounding_box(m) ==
    IF Len(m.vertices) = 0 THEN <<ZERO, ZERO>>
    ELSE box_fold(m.vertices, 1, box_start[1], box_start[2])

\* ---------------------------------------------------------------- validate
\* Step 1 (lines 9-33): twin symmetry, for every half-edge that has a twin.
validate_twins(m) ==
    \A he_id \in 1..Len(m.halfedges) :
      LET he == m.halfedges[he_id]
          twin_id == he.twin
      IN twin_id # None =>
           /\ contains_key(m.halfedges, twin_id)
           /\ m.halfedges[twin_id].twin = he_id
           /\ he.origin # m.halfedges[twin_id].origin

\* Faulty variant: the next/prev comparison left out.
prev_unchecked(m, current, next_id) == TRUE

\* Line 70: next_he.prev == Some(current)
prev_matches(m, current, next_id) == m.halfedges[next_id].prev = current

\* How a walk ends: whether the loop closed correctly (FALSE where the code
\* returns a Topology error) and the value of `count` when it stopped.
Walk(ok, count) == [ok |-> ok, count |-> count]

\* Step 2 (lines 41-104): the walk of one face's outer loop. `count` is the
\* number of half-edges passed so far.
RECURSIVE walk_face(_, _, _, _, _)
walk_face(m, face_id, start, current, count) ==
    IF ~contains_key(m.halfedges, current) THEN Walk(FALSE, count)
    ELSE
      LET he == m.halfedges[current]
          max_iter == Len(m.halfedges) + 1
      IN IF he.face # face_id THEN Walk(FALSE, count)
         ELSE IF he.next # None /\ ~contains_key(m.halfedges, he.next)
         THEN Walk(FALSE, count)
         ELSE IF he.next # None /\ ~prev_matches(m, current, he.next)
         THEN Walk(FALSE, count)
         ELSE IF he.next = None THEN Walk(FALSE, count)
         ELSE IF count + 1 > max_iter THEN Walk(FALSE, count + 1)
         ELSE IF he.next = start THEN Walk(count + 1 >= 3, count + 1)
         ELSE walk_face(m, face_id, start, he.next, count + 1)

validate_faces(m) ==
    \A face_id \in 1..Len(m.faces) :
      /\ contains_key(m.loops, m.faces[face_id].outer_loop)
      /\ walk_face(m, face_id, m.loops[m.faces[face_id].outer_loop].halfedge,
                   m.loops[m.faces[face_id].outer_loop].halfedge, 0).ok

\* Faulty variant: step 3 left out.
validate_edges_skipped(m) == TRUE

\* Step 3 (lines 108-128): each edge's two half-edges are each other's twins.
validate_edges(m) ==
    \A edge_id \in 1..Len(m.edges) :
      LET edge == m.edges[edge_id]
      IN /\ contains_key(m.halfedges, edge.halfedge_a)
         /\ contains_key(m.halfedges, edge.halfedge_b)
         /\ m.halfedges[edge.halfedge_a].twin = edge.halfedge_b
         /\ m.halfedges[edge.halfedge_b].twin = edge.halfedge_a

\* Faulty variant: only the face loops are checked.
validate_faces_only(m) ==
    IF validate_faces(m) THEN "Ok" ELSE "Topology"

\* The variant validate returns (every failure is a Topology error).
validate(m) ==
    IF validate_twins(m) /\ validate_faces(m) /\ validate_edges(m)
    THEN "Ok" ELSE "Topology"

\* --------------------------------------------------------------- find_span
\* knots[i] of the slice, whose indices start at 0; indexing it outside
\* 0..len-1 panics.
InSlice(knots, i) == i \in 0..(Len(knots) - 1)

At(knots, i) == knots[i + 1]

\* How a call of find_span ends: Ok with the index it returns, a panic on an
\* index out of bounds, or a loop that goes on for ever.
SpanOk(i) == [kind |-> "Ok", ret |-> i]

SpanPanic == [kind |-> "Panic", ret |-> None]

SpanDiverges == [kind |-> "Diverges", ret |-> None]

\* Lines 27-34: the binary search, entered with low, high and mid set. An
\* iteration that leaves low and high as they were repeats for ever.
RECURSIVE span_search(_, _, _, _, _)
span_search(knots, t, low, high, mid) ==
    IF ~InSlice(knots, mid) THEN SpanPanic
    ELSE IF t < At(knots, mid)
    THEN IF mid = high THEN SpanDiverges
         ELSE span_search(knots, t, low, mid, (low + mid) \div 2)
    ELSE IF ~InSlice(knots, mid + 1) THEN SpanPanic
    ELSE IF t >= At(knots, mid + 1)
    THEN IF mid = low THEN SpanDiverges
         ELSE span_search(knots, t, mid, high, (mid + high) \div 2)
    ELSE SpanOk(mid)

\* Faulty variant: the upper boundary test is strict.
above_upper_boundary(knots, n, t) == t > At(knots, n + 1)

\* Line 15: t >= knots[n + 1]
at_upper_boundary(knots, n, t) == t >= At(knots, n + 1)

find_span(degree, knots, n, t) ==
    IF ~InSlice(knots, n + 1) THEN SpanPanic
    ELSE IF at_upper_boundary(knots, n, t) THEN SpanOk(n)
    ELSE IF ~InSlice(knots, degree) THEN SpanPanic
    ELSE IF t <= At(knots, degree) THEN SpanOk(degree)
    ELSE span_search(knots, t, degree, n + 1, (degree + n + 1) \div 2)

\* ------------------------------------------------------------ state machine
\* mesh is the Mesh value; pre is the Mesh as it was when the latest call
\* started; last is the latest call: the operation, the Result it returned
\* (the variant with its message, and the handle in Ok) and, for a call that
\* returned Ok, its vertex arguments.
Call(op, vertices, r) ==
    [op |-> op, res |-> r.res, ret |-> r.ret,
     args |-> IF r.res = Ok THEN vertices ELSE <<>>]

Bounds(nv, ne, nf, len) == [nv |-> nv, ne |-> ne, nf |-> nf, len |-> len]

WithinBounds(m, b) ==
    /\ Len(m.vertices) <= b.nv
    /\ Len(m.edges) <= b.ne
    /\ Len(m.faces) <= b.nf

Step(op, vertices, r, b) ==
    /\ WithinBounds(r.mesh, b)
    /\ mesh' = r.mesh
    /\ pre' = mesh
    /\ last' = Call(op, vertices, r)

Init ==
    /\ mesh = NewMesh
    /\ pre = NewMesh
    /\ last = [op |-> "new", res |-> Ok, ret |-> None, args |-> <<>>]

\* ---- Spec: any arguments. make_triangle(v1, v2, v3) is
\* make_face(&[v1, v2, v3]), one of MakeFace's calls; it is an action of its
\* own in SpecFaces.
SpecBounds == Bounds(MaxVertices, MaxEdges, MaxFaces, MaxFaceLen)

AddVertex == Step("add_vertex", <<>>, add_vertex(mesh), SpecBounds)

MakeEdge ==
    \E v1, v2 \in VertexIds(MaxVertices) :
      Step("make_edge", <<v1, v2>>, make_edge(mesh, v1, v2), SpecBounds)

MakeFace ==
    \E vertices \in FaceLists(MaxVertices, MaxFaceLen) :
      Step("make_face", vertices, make_face(mesh, vertices), SpecBounds)

Next == AddVertex \/ MakeEdge \/ MakeFace

Spec == Init /\ [][Next]_vars

\* ---- SpecManifold: the calls of a caller that never passes a vertex twice
\* (make_edge(v1, v2) with v1 # v2, vertex lists without repeats); handles
\* may still be unknown and calls may still fail.
ManifoldBounds == Bounds(MaxVertices, ManifoldEdges, MaxFaces, MaxFaceLen)

AddVertexM == Step("add_vertex", <<>>, add_vertex(mesh), ManifoldBounds)

MakeEdgeM ==
    \E v1, v2 \in VertexIds(MaxVertices) :
      /\ v1 # v2
      /\ Step("make_edge", <<v1, v2>>, make_edge(mesh, v1, v2), ManifoldBounds)

MakeFaceM ==
    \E vertices \in FaceLists(MaxVertices, MaxFaceLen) :
      /\ NoRepeat(vertices)
      /\ Step("make_face", vertices, make_face(mesh, vertices), ManifoldBounds)

NextManifold == AddVertexM \/ MakeEdgeM \/ MakeFaceM

SpecManifold == Init /\ [][NextManifold]_vars

\* ---- SpecFaces: faces built on bare vertices (no explicit make_edge), from
\* lists of at least 3 different vertices of the mesh.
FacesBounds == Bounds(FacesVertices, FacesEdges, MaxFaces, FacesFaceLen)

\* The handles the mesh has issued.
KnownIds(m) == 1..Len(m.vertices)

AddVertexF == Step("add_vertex", <<>>, add_vertex(mesh), FacesBounds)

MakeFaceF ==
    \E k \in 3..FacesFaceLen : \E vertices \in [1..k -> KnownIds(mesh)] :
      /\ NoRepeat(vertices)
      /\ Step("make_face", vertices, make_face(mesh, vertices), FacesBounds)

MakeTriangleF ==
    \E v1, v2, v3 \in KnownIds(mesh) :
      /\ NoRepeat(<<v1, v2, v3>>)
      /\ Step("make_triangle", <<v1, v2, v3>>,
              make_triangle(mesh, v1, v2, v3), FacesBounds)

NextFaces == AddVertexF \/ MakeFaceF \/ MakeTriangleF

SpecFaces == Init /\ [][NextFaces]_vars

\* ---- SpecRepeats: any calls on the vertices of the mesh, with vertex lists
\* of up to RepeatsFaceLen handles in which a vertex may come more than once,
\* until the mesh has RepeatsFaces faces; add_vertex and make_edge go on
\* after that.
RepeatsBounds ==
    Bounds(RepeatsVertices, RepeatsEdges, RepeatsFaces, RepeatsFaceLen)

AddVertexR == Step("add_vertex", <<>>, add_vertex(mesh), RepeatsBounds)

MakeEdgeR ==
    \E v1, v2 \in KnownIds(mesh) :
      Step("make_edge", <<v1, v2>>, make_edge(mesh, v1, v2), RepeatsBounds)

MakeFaceR ==
    /\ Len(mesh.faces) < RepeatsFaces
    /\ \E k \in 3..RepeatsFaceLen : \E vertices \in [1..k -> KnownIds(mesh)] :
         Step("make_face", vertices, make_face(mesh, vertices), RepeatsBounds)

NextRepeats == AddVertexR \/ MakeEdgeR \/ MakeFaceR

SpecRepeats == Init /\ [][NextRepeats]_vars

\* ---- SpecBox: vertices added at positions of a small grid, edges and a
\* triangle between some of them, and bounding_box() called at any time.
BoxBounds == Bounds(BoxVertices, BoxEdges, BoxFaces, MinFaceVertices)

BoxPoints ==
    {<<Finite(x), Finite(y), Finite(z)>> : x, y, z \in {-BoxCoord, BoxCoord}}

AddVertexB ==
    \E position \in BoxPoints :
      Step("add_vertex", <<>>, add_vertex_at(mesh, position), BoxBounds)

MakeEdgeB ==
    \E v1, v2 \in KnownIds(mesh) :
      /\ v1 < v2
      /\ Step("make_edge", <<v1, v2>>, make_edge(mesh, v1, v2), BoxBounds)

MakeTriangleB ==
    /\ Len(mesh.vertices) = 3
    /\ Step("make_triangle", <<1, 2, 3>>, make_triangle(mesh, 1, 2, 3),
            BoxBounds)

BoundingBoxB ==
    /\ last.op # "bounding_box"
    /\ Step("bounding_box", <<>>, Result(mesh, Ok, bounding_box(mesh)),
            BoxBounds)

NextBox == AddVertexB \/ MakeEdgeB \/ MakeTriangleB \/ BoundingBoxB

SpecBox == Init /\ [][NextBox]_vars

\* ---- SpecKnots: find_span called on a B-spline's degree, knot vector and
\* last control point index n >= degree, and a parameter t. The knot vector
\* is any non-decreasing one of length n + degree + 2.
NonDecreasing(knots) ==
    \A i \in 1..(Len(knots) - 1) : knots[i] <= knots[i + 1]

KnotVectors(len) ==
    {knots \in [1..len -> 0..KnotsMaxValue] : NonDecreasing(knots)}

InitKnots ==
    /\ mesh = NewMesh
    /\ pre = NewMesh
    /\ \E degree \in 0..KnotsMaxDegree : \E n \in degree..KnotsMaxN :
         \E knots \in KnotVectors(n + degree + 2) :
           \E t \in (-1)..(KnotsMaxValue + 1) :
             last = [op |-> "knots", res |-> Ok, ret |-> None,
                     args |-> <<degree, knots, n, t>>]

FindSpan ==
    /\ last.op = "knots"
    /\ LET r == find_span(last.args[1], last.args[2], last.args[3],
                          last.args[4])
       IN last' = [op |-> "find_span", res |-> r.kind, ret |-> r.ret,
                   args |-> last.args]
    /\ UNCHANGED <<mesh, pre>>

NextKnots == FindSpan

SpecKnots == InitKnots /\ [][NextKnots]_vars

\* ==================================================================== claims
\* The mesh after n add_vertex calls on Mesh::new().
BareMesh(n) == [NewMesh EXCEPT !.vertices = [i \in 1..n |-> Vertex(None)]]

FaceCall == last.op \in {"make_face", "make_triangle"}

\* C1: on a mesh with no edges, a successful make_face (or make_triangle)
\* over n >= 3 different vertices leaves the number of vertices unchanged and
\* yields exactly n edges, 2n half-edges, 1 loop and 1 face, and validate()
\* then returns Ok.
C1_FaceOnBareVertices ==
    (FaceCall /\ last.res = Ok /\ pre.edges = <<>> /\ NoRepeat(last.args))
    => /\ Len(last.args) >= 3
       /\ Len(mesh.vertices) = Len(pre.vertices)
       /\ Len(mesh.edges) = Len(last.args)
       /\ Len(mesh.halfedges) = 2 * Len(last.args)
       /\ Len(mesh.loops) = 1
       /\ Len(mesh.faces) = 1
       /\ validate(mesh) = "Ok"

\* C1 happens: a quad built by make_face on four bare vertices.
C1_Witness ==
    /\ last.op = "make_face" /\ last.res = Ok
    /\ pre = BareMesh(4)
    /\ Len(last.args) = 4 /\ NoRepeat(last.args)

\* C2: on four bare vertices, make_face([v0,v1,v2]) then make_face([v1,v0,v3])
\* both succeed; afterwards there are exactly 5 edges and 10 half-edges,
\* exactly one edge has both entries of edge_faces present, these are the two
\* different faces just created, and validate() returns Ok.
C2_SharedEdge ==
    \A v0, v1, v2, v3 \in 1..4 :
      NoRepeat(<<v0, v1, v2, v3>>) =>
        LET first == make_face(BareMesh(4), <<v0, v1, v2>>)
            shared == {e \in 1..Len(mesh.edges) :
                         edge_faces(mesh, e)[1] # None
                         /\ edge_faces(mesh, e)[2] # None}
        IN /\ mesh = BareMesh(4) =>
                /\ first.res = Ok
                /\ make_face(first.mesh, <<v1, v0, v3>>).res = Ok
           /\ (/\ last.op = "make_face" /\ last.res = Ok
               /\ last.args = <<v1, v0, v3>>
               /\ pre = first.mesh)
              => /\ Len(mesh.edges) = 5
                 /\ Len(mesh.halfedges) = 10
                 /\ Cardinality(shared) = 1
                 /\ first.ret # last.ret
                 /\ \A e \in shared :
                      {edge_faces(mesh, e)[1], edge_faces(mesh, e)[2]}
                        = {first.ret, last.ret}
                 /\ validate(mesh) = "Ok"

\* C2 happens: the second triangle of the pair has been built.
C2_Witness ==
    /\ last.op = "make_face" /\ last.res = Ok
    /\ last.args = <<2, 1, 4>>
    /\ pre = make_face(BareMesh(4), <<1, 2, 3>>).mesh
    /\ Len(mesh.faces) = 2

\* C3: after any sequence of add_vertex, make_edge(v1, v2) with v1 # v2 and
\* make_face over lists without a repeated vertex, whether the calls
\* succeeded or failed, validate() returns Ok.
C3_ValidateOk == validate(mesh) = "Ok"

\* C3 happens: two faces and an explicit edge beside them, after a failed call.
C3_Witness ==
    /\ Len(mesh.faces) = 2
    /\ Len(mesh.edges) = 4
    /\ last.res # Ok

\* The half-edges met by following next from the head of face f's outer loop.
RECURSIVE NextReach(_, _, _)
NextReach(m, he, seen) ==
    IF he = None \/ he \in seen THEN seen
    ELSE NextReach(m, m.halfedges[he].next, seen \cup {he})

FaceCycle(m, f) == NextReach(m, m.loops[m.faces[f].outer_loop].halfedge, {})

\* Handle v is in the vertex table of m.
Present(m, v) == v \in 1..Len(m.vertices)

AllPresent(m, vertices) == \A i \in 1..Len(vertices) : Present(m, vertices[i])

\* Some consecutive pair of the list (wrapping) has a half-edge running along
\* it that already has a face.
HasFacedPair(m, vertices) ==
    \E i \in 1..Len(vertices) : \E h \in 1..Len(m.halfedges) :
      /\ HalfEdgeRuns(m, h, vertices[i], vertices[(i % Len(vertices)) + 1])
      /\ m.halfedges[h].face # None

AnyFaceLists == FaceLists(MaxVertices, MaxFaceLen)

\* C4: a half-edge belongs to at most one face: no call changes a face field
\* that is already set, and no half-edge lies on the next-cycle of two
\* different faces.
C4_OneFacePerHalfEdge ==
    /\ \A h \in 1..Len(pre.halfedges) :
         pre.halfedges[h].face # None
           => mesh.halfedges[h].face = pre.halfedges[h].face
    /\ \A f, g \in 1..Len(mesh.faces) :
         f # g => FaceCycle(mesh, f) \cap FaceCycle(mesh, g) = {}

\* C4 happens: a second face has been built beside an existing one.
C4_Witness ==
    /\ last.op = "make_face" /\ last.res = Ok
    /\ Len(pre.faces) = 1 /\ Len(mesh.faces) = 2
    /\ \E h \in 1..Len(pre.halfedges) : pre.halfedges[h].face = 1

\* C5 as stated: whenever some consecutive pair of the list has a half-edge
\* with a face running along it, make_face returns a Topology error and
\* creates no loop and no face.
C5_AsStated ==
    \A vertices \in AnyFaceLists :
      HasFacedPair(mesh, vertices) =>
        LET r == make_face(mesh, vertices)
        IN /\ r.res.kind = "Topology"
           /\ r.mesh.loops = mesh.loops
           /\ r.mesh.faces = mesh.faces

\* C5 (amended): the same, for a list whose handles are all present in the
\* mesh; a list with an unknown handle is refused as NotFound before any pair
\* is looked at, and creates no loop and no face either.
C5_NonManifold ==
    \A vertices \in AnyFaceLists :
      HasFacedPair(mesh, vertices) =>
        LET r == make_face(mesh, vertices)
        IN /\ AllPresent(mesh, vertices) => r.res.kind = "Topology"
           /\ ~AllPresent(mesh, vertices) => r.res.kind = "NotFound"
           /\ r.mesh.loops = mesh.loops
           /\ r.mesh.faces = mesh.faces

\* C5 happens: make_face has refused a list as non-manifold.
C5_Witness ==
    /\ last.op = "make_face"
    /\ last.res = Topology("Half-edge already belongs to a face (non-manifold)")
    /\ Len(mesh.faces) >= 1
    /\ mesh.faces = pre.faces /\ mesh.loops = pre.loops

\* C6: make_face with fewer than 3 vertices returns a Topology error,
\* whatever the handles are, and leaves every table of the mesh unchanged.
C6_TooFewVertices ==
    \A vertices \in AnyFaceLists :
      Len(vertices) < 3 =>
        LET r == make_face(mesh, vertices)
        IN r.res.kind = "Topology" /\ r.mesh = mesh

\* C6 happens: a call with too few vertices on a mesh that has edges.
C6_Witness ==
    /\ last.op = "make_face"
    /\ last.res = Topology("A face requires at least 3 vertices")
    /\ mesh = pre
    /\ Len(mesh.edges) >= 1

\* C7: make_edge with an unknown v1 or v2, and make_face with at least 3
\* vertices of which one is unknown, return a NotFound error and leave every
\* table of the mesh unchanged.
C7_UnknownVertex ==
    /\ \A v1, v2 \in VertexIds(MaxVertices) :
         (~Present(mesh, v1) \/ ~Present(mesh, v2)) =>
           LET r == make_edge(mesh, v1, v2)
           IN r.res.kind = "NotFound" /\ r.mesh = mesh
    /\ \A vertices \in AnyFaceLists :
         (Len(vertices) >= 3 /\ ~AllPresent(mesh, vertices)) =>
           LET r == make_face(mesh, vertices)
           IN r.res.kind = "NotFound" /\ r.mesh = mesh

\* C7 happens: make_edge has refused an unknown handle.
C7_Witness ==
    /\ last.op = "make_edge"
    /\ last.res = NotFound("Vertex not found")
    /\ mesh = pre
    /\ Len(mesh.vertices) >= 1

\* C8 as stated: make_face given at least 3 handles of which one is not in
\* the mesh fails with a Topology error.
C8_AsStated ==
    \A vertices \in AnyFaceLists :
      (Len(vertices) >= 3 /\ ~AllPresent(mesh, vertices))
        => make_face(mesh, vertices).res.kind = "Topology"

\* C8 (amended): such a call fails with a NotFound error.
C8_StaleIsNotFound ==
    \A vertices \in AnyFaceLists :
      (Len(vertices) >= 3 /\ ~AllPresent(mesh, vertices))
        => make_face(mesh, vertices).res.kind = "NotFound"

\* C8 happens: make_face has refused a list with an unknown handle, on a mesh
\* that already has a face.
C8_Witness ==
    /\ last.op = "make_face"
    /\ last.res.kind = "NotFound"
    /\ Len(mesh.faces) >= 1

\* C9: a make_face call either returns Ok with next, prev, face and loop set
\* on each of the n half-edges it resolved (a closed doubly-linked cycle in
\* list order when they are n different half-edges), or returns an error
\* having changed no half-edge's next, prev, face or loop and having inserted
\* no loop and no face.
SameLinks(a, b) ==
    /\ a.next = b.next /\ a.prev = b.prev
    /\ a.face = b.face /\ a.loop_id = b.loop_id

C9_AllOrNothing ==
    \A vertices \in AnyFaceLists :
      LET r == make_face(mesh, vertices)
          fh == resolve_halfedges(mesh, vertices, 1, <<>>).face_halfedges
          n == Len(vertices)
          hes == r.mesh.halfedges
      IN IF r.res = Ok
         THEN /\ Len(fh) = n
              /\ Len(r.mesh.faces) = Len(mesh.faces) + 1
              /\ Len(r.mesh.loops) = Len(mesh.loops) + 1
              /\ r.ret = Len(r.mesh.faces)
              /\ \A i \in 1..n :
                   /\ hes[fh[i]].next # None /\ hes[fh[i]].prev # None
                   /\ hes[fh[i]].face = r.ret
                   /\ hes[fh[i]].loop_id = Len(r.mesh.loops)
              /\ (\A i, j \in 1..n : i # j => fh[i] # fh[j])
                   => \A i \in 1..n :
                        /\ hes[fh[i]].next = fh[(i % n) + 1]
                        /\ hes[fh[i]].prev = fh[((n + i - 2) % n) + 1]
         ELSE /\ r.mesh.loops = mesh.loops
              /\ r.mesh.faces = mesh.faces
              /\ \A h \in 1..Len(mesh.halfedges) :
                   SameLinks(hes[h], mesh.halfedges[h])
              /\ \A h \in (Len(mesh.halfedges) + 1)..Len(hes) :
                   SameLinks(hes[h], HalfEdge(None, None))

\* C9 happens: a make_face call failed after it had allocated an edge.
C9_Witness ==
    /\ last.op = "make_face" /\ last.res.kind = "Topology"
    /\ Len(mesh.edges) > Len(pre.edges)

\* C10: every half-edge has a twin and an owning edge, its twin's twin is
\* itself and its twin is another half-edge; each edge's halfedge_a and
\* halfedge_b are each other's twins and both name that edge; so there are
\* exactly twice as many half-edges as edges.
C10_TwinsAndEdges ==
    /\ \A h \in 1..Len(mesh.halfedges) :
         LET he == mesh.halfedges[h]
         IN /\ he.twin \in 1..Len(mesh.halfedges)
            /\ he.edge \in 1..Len(mesh.edges)
            /\ mesh.halfedges[he.twin].twin = h
            /\ he.twin # h
    /\ \A e \in 1..Len(mesh.edges) :
         LET a == mesh.edges[e].halfedge_a
             b == mesh.edges[e].halfedge_b
         IN /\ a \in 1..Len(mesh.halfedges) /\ b \in 1..Len(mesh.halfedges)
            /\ mesh.halfedges[a].twin = b /\ mesh.halfedges[b].twin = a
            /\ mesh.halfedges[a].edge = e /\ mesh.halfedges[b].edge = e
    /\ Len(mesh.halfedges) = 2 * Len(mesh.edges)

\* C10 happens: edges made by make_edge (one of them from a vertex to itself)
\* and by make_face, some of them in a face.
C10_Witness ==
    /\ Len(mesh.edges) = 3 /\ Len(mesh.faces) >= 1
    /\ \E h \in 1..Len(mesh.halfedges) :
         mesh.halfedges[h].origin = mesh.halfedges[mesh.halfedges[h].twin].origin
    /\ last.op = "make_edge" /\ last.res = Ok

\* C11 as stated: after successful calls with any existing handles, no
\* half-edge has the same origin as its twin.
C11_AsStated ==
    \A h \in 1..Len(mesh.halfedges) :
      mesh.halfedges[h].twin # None
        => mesh.halfedges[h].origin
             # mesh.halfedges[mesh.halfedges[h].twin].origin

\* C12 as stated: for every face, walking next from the head of the outer
\* loop returns to the head after at least 3 steps, every half-edge on the
\* way is tagged with the face, and next and prev agree along it.
C12_AsStated ==
    \A f \in 1..Len(mesh.faces) :
      LET head == mesh.loops[mesh.faces[f].outer_loop].halfedge
          cycle == FaceCycle(mesh, f)
      IN /\ Cardinality(cycle) >= 3
         /\ \E h \in cycle : mesh.halfedges[h].next = head
         /\ \A h \in cycle :
              /\ mesh.halfedges[h].face = f
              /\ mesh.halfedges[h].next \in cycle
              /\ mesh.halfedges[mesh.halfedges[h].next].prev = h

\* A half-edge of m runs between a and b, in either direction.
Joined(m, a, b) ==
    \E h \in 1..Len(m.halfedges) :
      HalfEdgeRuns(m, h, a, b) \/ HalfEdgeRuns(m, h, b, a)

\* The vertex after position i of a list, wrapping.
After(vertices, i) == vertices[(i % Len(vertices)) + 1]

\* C13: a successful make_face over a list without repeats allocates as many
\* edges as the list has consecutive pairs (wrapping) that no half-edge
\* joined before the call; and where a half-edge without a face already ran
\* along a pair, the face's half-edge at that position is one that existed
\* before the call, ran along the pair and had no face.
C13_EdgesAllocated ==
    (last.op = "make_face" /\ last.res = Ok /\ NoRepeat(last.args)) =>
      LET vs == last.args
          n == Len(vs)
          fresh == {i \in 1..n : ~Joined(pre, vs[i], After(vs, i))}
          it == face_halfedges(mesh, last.ret)
          hs == face_halfedges_collect(mesh, it, n + 1, <<>>).items
      IN /\ Len(mesh.edges) = Len(pre.edges) + Cardinality(fresh)
         /\ Len(mesh.halfedges) = Len(pre.halfedges) + 2 * Cardinality(fresh)
         /\ Len(hs) = n
         /\ \A i \in 1..n :
              (\E h \in 1..Len(pre.halfedges) :
                 /\ HalfEdgeRuns(pre, h, vs[i], After(vs, i))
                 /\ pre.halfedges[h].face = None)
              => /\ hs[i] \in 1..Len(pre.halfedges)
                 /\ HalfEdgeRuns(pre, hs[i], vs[i], After(vs, i))
                 /\ pre.halfedges[hs[i]].face = None
                 /\ mesh.halfedges[hs[i]].face = last.ret
                 /\ i \notin fresh

\* C13 happens: a face that reuses the second half-edge of an edge made the
\* other way round and allocates an edge for another pair.
C13_Witness ==
    /\ last.op = "make_face" /\ last.res = Ok /\ NoRepeat(last.args)
    /\ Len(mesh.edges) > Len(pre.edges)
    /\ \E i \in 1..Len(last.args) : \E e \in 1..Len(pre.edges) :
         /\ HalfEdgeRuns(pre, pre.edges[e].halfedge_b,
                         last.args[i], After(last.args, i))
         /\ mesh.halfedges[pre.edges[e].halfedge_b].face = last.ret

\* C14: a successful make_edge(v1, v2) allocates exactly one edge and two
\* half-edges, which start at v1 and v2, are each other's twins, name the new
\* edge and have no next, prev, face or loop; it changes no half-edge, edge,
\* loop or face that existed, and the only vertices it changes are v1 and v2
\* where they had no outgoing half-edge, which get their new half-edge.
C14_MakeEdgeFrame ==
    (last.op = "make_edge" /\ last.res = Ok) =>
      LET v1 == last.args[1]
          v2 == last.args[2]
          e == last.ret
          a == mesh.edges[e].halfedge_a
          b == mesh.edges[e].halfedge_b
          fresh(origin, twin) ==
              [origin |-> origin, twin |-> twin, next |-> None, prev |-> None,
               face |-> None, edge |-> e, loop_id |-> None]
      IN /\ Len(mesh.edges) = Len(pre.edges) + 1
         /\ Len(mesh.halfedges) = Len(pre.halfedges) + 2
         /\ e = Len(mesh.edges)
         /\ {a, b} = {Len(pre.halfedges) + 1, Len(pre.halfedges) + 2}
         /\ mesh.halfedges[a] = fresh(v1, b)
         /\ mesh.halfedges[b] = fresh(v2, a)
         /\ SubSeq(mesh.halfedges, 1, Len(pre.halfedges)) = pre.halfedges
         /\ SubSeq(mesh.edges, 1, Len(pre.edges)) = pre.edges
         /\ mesh.loops = pre.loops
         /\ mesh.faces = pre.faces
         /\ Len(mesh.vertices) = Len(pre.vertices)
         /\ \A v \in 1..Len(pre.vertices) :
              mesh.vertices[v] # pre.vertices[v]
                => /\ pre.vertices[v].halfedge = None
                   /\ \/ v = v1 /\ mesh.vertices[v].halfedge = a
                      \/ v = v2 /\ mesh.vertices[v].halfedge = b

\* C14 happens: an edge from a vertex that had an outgoing half-edge to one
\* that had none, on a mesh with edges.
C14_Witness ==
    /\ last.op = "make_edge" /\ last.res = Ok
    /\ Len(pre.edges) >= 1
    /\ pre.vertices[last.args[1]].halfedge # None
    /\ pre.vertices[last.args[2]].halfedge = None
    /\ mesh.vertices[last.args[2]].halfedge # None

\* C15: the vertex add_vertex returns has no outgoing half-edge; a vertex has
\* none exactly as long as no half-edge starts at it; an outgoing half-edge,
\* once assigned, is never changed by a later call; and it is always a
\* half-edge of the mesh that starts at that vertex.
C15_OutgoingHalfEdge ==
    /\ last.op = "add_vertex"
         => /\ last.ret = Len(mesh.vertices)
            /\ mesh.vertices[last.ret].halfedge = None
    /\ \A v \in 1..Len(mesh.vertices) :
         LET out == mesh.vertices[v].halfedge
         IN /\ out = None
                 <=> \A h \in 1..Len(mesh.halfedges) :
                       mesh.halfedges[h].origin # v
            /\ out # None
                 => /\ out \in 1..Len(mesh.halfedges)
                    /\ mesh.halfedges[out].origin = v
    /\ \A v \in 1..Len(pre.vertices) :
         pre.vertices[v].halfedge # None
           => mesh.vertices[v].halfedge = pre.vertices[v].halfedge

\* C15 happens: a call has created a half-edge that starts at a vertex whose
\* outgoing half-edge was already assigned.
C15_Witness ==
    /\ last.res = Ok
    /\ \E v \in 1..Len(pre.vertices) :
         /\ pre.vertices[v].halfedge # None
         /\ \E h \in (Len(pre.halfedges) + 1)..Len(mesh.halfedges) :
              mesh.halfedges[h].origin = v

\* What the two face iterators of face f yield on mesh m.
FaceHalfEdges(m, f) ==
    face_halfedges_collect(m, face_halfedges(m, f), Len(m.halfedges) + 1, <<>>)

FaceVertices(m, f) ==
    face_vertices_collect(m, face_vertices(m, f), Len(m.halfedges) + 1)

\* C16: right after a successful make_face(vs) over n different vertices
\* that returned f, face_vertices(f) yields exactly vs in order and
\* face_halfedges(f) yields n different half-edges, each with face f, the
\* i-th from vs[i] to the vertex after it; and no later call, successful or
\* not, changes what the two iterators of an existing face yield, nor the
\* face, origin or target of the half-edges they yield.
C16_FaceTraversal ==
    /\ (last.op = "make_face" /\ last.res = Ok /\ NoRepeat(last.args)) =>
         LET vs == last.args
             n == Len(vs)
             hs == FaceHalfEdges(mesh, last.ret)
             fv == FaceVertices(mesh, last.ret)
         IN /\ fv.ended /\ fv.items = vs
            /\ hs.ended /\ Len(hs.items) = n
            /\ \A i, j \in 1..Len(hs.items) :
                 i # j => hs.items[i] # hs.items[j]
            /\ \A i \in 1..Len(hs.items) :
                 /\ mesh.halfedges[hs.items[i]].face = last.ret
                 /\ mesh.halfedges[hs.items[i]].origin = vs[i]
                 /\ halfedge_target(mesh, hs.items[i]) = After(vs, i)
    /\ \A f \in 1..Len(pre.faces) :
         LET was == FaceHalfEdges(pre, f)
         IN /\ FaceHalfEdges(mesh, f) = was
            /\ FaceVertices(mesh, f) = FaceVertices(pre, f)
            /\ \A i \in 1..Len(was.items) :
                 LET h == was.items[i]
                 IN /\ mesh.halfedges[h].face = pre.halfedges[h].face
                    /\ mesh.halfedges[h].origin = pre.halfedges[h].origin
                    /\ halfedge_target(mesh, h) = halfedge_target(pre, h)

\* C16 happens: a second face has been built from different vertices beside
\* a first one built the same way.
C16_Witness ==
    /\ last.op = "make_face" /\ last.res = Ok /\ NoRepeat(last.args)
    /\ Len(pre.faces) = 1 /\ Len(mesh.faces) = 2
    /\ FaceVertices(mesh, 2).items = last.args
    /\ Len(FaceVertices(mesh, 1).items) = 3

\* C17: for every face, the face_halfedges and face_vertices iterations end,
\* after at most as many items as the mesh has half-edges.
C17_FaceIterationsEnd ==
    \A f \in 1..Len(mesh.faces) :
      LET hs == FaceHalfEdges(mesh, f)
          fv == FaceVertices(mesh, f)
      IN /\ hs.ended /\ Len(hs.items) <= Len(mesh.halfedges)
         /\ fv.ended /\ Len(fv.items) <= Len(mesh.halfedges)

\* C17 happens: a face built from a list in which a pair of vertices comes
\* twice, so that the same half-edge was linked at two positions.
C17_Witness ==
    /\ last.op = "make_face" /\ last.res = Ok
    /\ Len(last.args) = 5
    /\ Len(FaceHalfEdges(mesh, last.ret).items) \in 1..4
    /\ Len(mesh.edges) = 3

\* What the vertex_outgoing iterator of vertex v yields within one call more
\* than the mesh has half-edges: an iteration that has not ended by then has
\* yielded some half-edge twice and goes on for ever.
VertexOutgoing(m, v) ==
    vertex_outgoing_collect(m, vertex_outgoing(m, v),
                            Len(m.halfedges) + 1, <<>>)

\* C18 as stated: for every vertex with an outgoing half-edge, the
\* vertex_outgoing iteration ends.
C18_AsStated ==
    \A v \in 1..Len(mesh.vertices) :
      mesh.vertices[v].halfedge # None => VertexOutgoing(mesh, v).ended

\* Mesh m with the twin of half-edge h replaced by t.
TwinReplaced(m, h, t) == [m EXCEPT !.halfedges[h].twin = t]

\* C19: on a mesh on which validate() returns Ok, replacing the twin of any
\* one half-edge by None, by another half-edge or by a handle of no
\* half-edge makes validate() return a Topology error.
C19_BrokenTwin ==
    validate(mesh) = "Ok" =>
      \A h \in 1..Len(mesh.halfedges) :
        \A t \in 0..(Len(mesh.halfedges) + 1) :
          t # mesh.halfedges[h].twin
            => validate(TwinReplaced(mesh, h, t)) = "Topology"

\* C19 happens: a valid mesh with a face and an edge beside it, whose first
\* half-edge loses its twin.
C19_Witness ==
    /\ validate(mesh) = "Ok"
    /\ Len(mesh.faces) >= 1
    /\ \E h \in 1..Len(mesh.halfedges) : mesh.halfedges[h].face = None
    /\ validate(TwinReplaced(mesh, 1, None)) = "Topology"

\* Mesh m with the next of half-edge h replaced by y.
NextReplaced(m, h, y) == [m EXCEPT !.halfedges[h].next = y]

\* The half-edges met by following next from he, as far as it leads.
RECURSIVE Chain(_, _, _)
Chain(m, he, seen) ==
    IF he \notin 1..Len(m.halfedges) \/ he \in seen THEN seen
    ELSE Chain(m, m.halfedges[he].next, seen \cup {he})

\* The chain of next from the head of face f's loop comes back to the head.
Closes(m, f) ==
    LET head == m.loops[m.faces[f].outer_loop].halfedge
    IN \E h \in Chain(m, head, {}) : m.halfedges[h].next = head

\* The meshes that differ from m in the next of one half-edge, which may
\* become None, any half-edge or a handle of no half-edge.
NextCorrupted(m) ==
    {NextReplaced(m, h, y) :
       h \in 1..Len(m.halfedges), y \in 0..(Len(m.halfedges) + 1)}

\* C20: on every mesh the operations build, and on each of them with the
\* next of one half-edge replaced by anything, the walk of each face's loop
\* in validate() stops with count at most the number of half-edges + 1, and
\* where the chain of next does not come back to the head validate() returns
\* a Topology error.
C20_WalkIsCapped ==
    \A cm \in NextCorrupted(mesh) \cup {mesh} :
      \A f \in 1..Len(cm.faces) :
        LET head == cm.loops[cm.faces[f].outer_loop].halfedge
            w == walk_face(cm, f, head, head, 0)
        IN /\ w.count <= Len(cm.halfedges) + 1
           /\ ~Closes(cm, f) => (~w.ok /\ validate(cm) = "Topology")

\* C20 happens: a triangle whose last half-edge has been pointed back at the
\* second one, so that the chain of next circles without reaching the head.
C20_Witness ==
    /\ Len(mesh.faces) >= 1
    /\ LET hs == FaceHalfEdges(mesh, 1).items
       IN /\ Len(hs) = 3
          /\ ~Closes(NextReplaced(mesh, hs[3], hs[2]), 1)
          /\ validate(mesh) = "Ok"
          /\ validate(NextReplaced(mesh, hs[3], hs[2])) = "Topology"

\* Mesh m with one stored handle replaced: a field of one half-edge, a side
\* of one edge, the head of one loop or the outer loop of one face.
Corrupted(m) ==
    LET hs == 1..Len(m.halfedges)
        anyHe == 0..(Len(m.halfedges) + 1)
    IN {[m EXCEPT !.halfedges[h].twin = x] : h \in hs, x \in anyHe}
       \cup {[m EXCEPT !.halfedges[h].next = x] : h \in hs, x \in anyHe}
       \cup {[m EXCEPT !.halfedges[h].prev = x] : h \in hs, x \in anyHe}
       \cup {[m EXCEPT !.halfedges[h].face = x] :
               h \in hs, x \in 0..(Len(m.faces) + 1)}
       \cup {[m EXCEPT !.halfedges[h].origin = x] :
               h \in hs, x \in 1..Len(m.vertices)}
       \cup {[m EXCEPT !.edges[e].halfedge_a = x] :
               e \in 1..Len(m.edges), x \in 1..(Len(m.halfedges) + 1)}
       \cup {[m EXCEPT !.edges[e].halfedge_b = x] :
               e \in 1..Len(m.edges), x \in 1..(Len(m.halfedges) + 1)}
       \cup {[m EXCEPT !.loops[l].halfedge = x] :
               l \in 1..Len(m.loops), x \in 1..(Len(m.halfedges) + 1)}
       \cup {[m EXCEPT !.faces[f].outer_loop = x] :
               f \in 1..Len(m.faces), x \in 1..(Len(m.loops) + 1)}

\* (1) every half-edge with a twin has that twin pointing back and a
\* different origin.
TwinsPointBack(m) ==
    \A h \in 1..Len(m.halfedges) :
      m.halfedges[h].twin # None
        => /\ m.halfedges[h].twin \in 1..Len(m.halfedges)
           /\ m.halfedges[m.halfedges[h].twin].twin = h
           /\ m.halfedges[m.halfedges[h].twin].origin # m.halfedges[h].origin

\* (2) for every face the chain of next from the head of its outer loop
\* comes back to the head after at least 3 half-edges, each of them tagged
\* with the face and each the prev of its next.
FaceLoopsClose(m) ==
    \A f \in 1..Len(m.faces) :
      /\ m.faces[f].outer_loop \in 1..Len(m.loops)
      /\ LET head == m.loops[m.faces[f].outer_loop].halfedge
             cycle == Chain(m, head, {})
         IN /\ Cardinality(cycle) >= 3
            /\ \E h \in cycle : m.halfedges[h].next = head
            /\ \A h \in cycle :
                 /\ m.halfedges[h].face = f
                 /\ m.halfedges[h].next \in 1..Len(m.halfedges)
                 /\ m.halfedges[m.halfedges[h].next].prev = h

\* (3) every edge's two half-edges are each other's twins.
EdgesAreTwins(m) ==
    \A e \in 1..Len(m.edges) :
      LET a == m.edges[e].halfedge_a
          b == m.edges[e].halfedge_b
      IN /\ a \in 1..Len(m.halfedges) /\ b \in 1..Len(m.halfedges)
         /\ m.halfedges[a].twin = b /\ m.halfedges[b].twin = a

\* C21: on every mesh the operations build (looked at after the successful
\* calls: a failed call leaves either the mesh as it was or the mesh that the
\* make_edge calls it made leave), and on each of them with one stored
\* handle replaced by anything, validate() returns Ok exactly when (1), (2)
\* and (3) hold, and a Topology error otherwise.
C21_ValidateIff ==
    last.res = Ok =>
      \A cm \in Corrupted(mesh) \cup {mesh} :
        /\ validate(cm) \in {"Ok", "Topology"}
        /\ validate(cm) = "Ok"
             <=> (TwinsPointBack(cm) /\ FaceLoopsClose(cm) /\ EdgesAreTwins(cm))

\* C21 happens: a mesh with a face on which validate() returns Ok, and which
\* fails on (3) alone once a side of an edge is replaced.
C21_Witness ==
    /\ last.res = Ok
    /\ Len(mesh.faces) >= 1
    /\ validate(mesh) = "Ok"
    /\ LET cm == [mesh EXCEPT !.edges[1].halfedge_b = 1]
       IN /\ TwinsPointBack(cm) /\ FaceLoopsClose(cm) /\ ~EdgesAreTwins(cm)
          /\ validate(cm) = "Topology"

\* An optional handle is None or a key of the table.
OptionIn(id, table) == id = None \/ id \in 1..Len(table)

\* Every handle stored in m is a key of the table of its kind.
HandlesPresent(m) ==
    /\ \A h \in 1..Len(m.halfedges) :
         LET he == m.halfedges[h]
         IN /\ he.origin \in 1..Len(m.vertices)
            /\ OptionIn(he.twin, m.halfedges)
            /\ OptionIn(he.next, m.halfedges)
            /\ OptionIn(he.prev, m.halfedges)
            /\ OptionIn(he.face, m.faces)
            /\ OptionIn(he.edge, m.edges)
            /\ OptionIn(he.loop_id, m.loops)
    /\ \A v \in 1..Len(m.vertices) :
         OptionIn(m.vertices[v].halfedge, m.halfedges)
    /\ \A e \in 1..Len(m.edges) :
         /\ m.edges[e].halfedge_a \in 1..Len(m.halfedges)
         /\ m.edges[e].halfedge_b \in 1..Len(m.halfedges)
    /\ \A l \in 1..Len(m.loops) :
         /\ m.loops[l].halfedge \in 1..Len(m.halfedges)
         /\ OptionIn(m.loops[l].face, m.faces)
    /\ \A f \in 1..Len(m.faces) :
         m.faces[f].outer_loop \in 1..Len(m.loops)

\* The table named by a call that returns a handle.
ReturnedFrom(m, op) ==
    IF op = "add_vertex" THEN m.vertices
    ELSE IF op = "make_edge" THEN m.edges
    ELSE m.faces

\* C22: every handle stored in the mesh is a key of the table of its kind;
\* and no call removes or replaces an entity: every key of before the call is
\* still a key, of the same edge, loop and face record and of a half-edge
\* with the same origin, twin and edge, and the handle a successful call
\* returns is a new key of its table.
C22_HandlesStayValid ==
    /\ HandlesPresent(mesh)
    /\ Len(pre.vertices) <= Len(mesh.vertices)
    /\ Len(pre.halfedges) <= Len(mesh.halfedges)
    /\ SubSeq(mesh.edges, 1, Len(pre.edges)) = pre.edges
    /\ SubSeq(mesh.loops, 1, Len(pre.loops)) = pre.loops
    /\ SubSeq(mesh.faces, 1, Len(pre.faces)) = pre.faces
    /\ \A h \in 1..Len(pre.halfedges) :
         /\ mesh.halfedges[h].origin = pre.halfedges[h].origin
         /\ mesh.halfedges[h].twin = pre.halfedges[h].twin
         /\ mesh.halfedges[h].edge = pre.halfedges[h].edge
    /\ (last.op # "new" /\ last.res = Ok)
         => /\ last.ret \in 1..Len(ReturnedFrom(mesh, last.op))
            /\ last.ret > Len(ReturnedFrom(pre, last.op))

\* C22 happens: a second face has been added to a mesh with three edges, so
\* that every kind of handle is stored and older handles exist.
C22_Witness ==
    /\ last.op = "make_face" /\ last.res = Ok
    /\ Len(mesh.faces) = 2 /\ Len(pre.faces) = 1
    /\ Len(mesh.edges) = 3
    /\ HandlesPresent(mesh)

\* The least and the greatest k-th coordinate over the vertices of m.
LeastCoord(m, k) ==
    CHOOSE c \in {m.vertices[v].position[k] : v \in 1..Len(m.vertices)} :
      \A v \in 1..Len(m.vertices) : ~f64_lt(m.vertices[v].position[k], c)

GreatestCoord(m, k) ==
    CHOOSE c \in {m.vertices[v].position[k] : v \in 1..Len(m.vertices)} :
      \A v \in 1..Len(m.vertices) : ~f64_lt(c, m.vertices[v].position[k])

\* C23: bounding_box() returns (origin, origin) on a mesh without vertices,
\* and otherwise, in each coordinate, the least and the greatest value over
\* the positions of all vertices, whether edges or faces use them or not.
C23_BoundingBox ==
    last.op = "bounding_box" =>
      /\ mesh = pre
      /\ IF Len(mesh.vertices) = 0
         THEN last.ret = <<ZERO, ZERO>>
         ELSE /\ last.ret[1] = [k \in 1..3 |-> LeastCoord(mesh, k)]
              /\ last.ret[2] = [k \in 1..3 |-> GreatestCoord(mesh, k)]

\* C23 happens: the box of three vertices of which two are joined by an edge
\* and the third, used by nothing, is alone on one side of the box.
C23_Witness ==
    /\ last.op = "bounding_box"
    /\ Len(mesh.vertices) = 3 /\ Len(mesh.edges) = 1
    /\ mesh.vertices[1].halfedge # None
    /\ mesh.vertices[3].halfedge = None
    /\ mesh.vertices[1].position[1] = Finite(BoxCoord)
    /\ mesh.vertices[2].position[1] = Finite(BoxCoord)
    /\ mesh.vertices[3].position[1] = Finite(-BoxCoord)
    /\ last.ret[1][1] = Finite(-BoxCoord)

\* C24 as stated: for a non-decreasing knot vector and
\* knots[degree] <= t < knots[n+1], find_span returns an index i with
\* degree <= i <= n and knots[i] <= t < knots[i+1].
C24_AsStated ==
    LET degree == last.args[1]
        knots == last.args[2]
        n == last.args[3]
        t == last.args[4]
    IN (/\ last.op = "find_span"
        /\ At(knots, degree) <= t /\ t < At(knots, n + 1))
       => /\ last.res = "Ok"
          /\ last.ret \in degree..n
          /\ At(knots, last.ret) <= t
          /\ t < At(knots, last.ret + 1)

\* C25: for a non-decreasing knot vector and any t, find_span ends, reads no
\* knot outside the vector and returns an index of degree..n: n whenever
\* t >= knots[n+1], and degree whenever t <= knots[degree] and t < knots[n+1].
C25_SpanInRange ==
    LET degree == last.args[1]
        knots == last.args[2]
        n == last.args[3]
        t == last.args[4]
    IN last.op = "find_span"
       => /\ last.res = "Ok"
          /\ last.ret \in degree..n
          /\ t >= At(knots, n + 1) => last.ret = n
          /\ (t <= At(knots, degree) /\ t < At(knots, n + 1))
               => last.ret = degree

\* C25 happens: a parameter above the last knot, on a vector with a repeated
\* inner knot.
C25_Witness ==
    /\ last.op = "find_span"
    /\ last.args[1] = 2 /\ last.args[3] = 3
    /\ last.args[2] = <<0, 0, 0, 1, 1, 2, 2>>
    /\ last.args[4] = 3
    /\ last.ret = 3

\* C27 as stated: a make_face call that returns an error leaves the
\* vertices, half-edges and edges tables exactly as they were before the
\* call.
C27_AsStated ==
    (last.op \in {"make_face", "make_triangle"} /\ last.res # Ok)
      => /\ mesh.vertices = pre.vertices
         /\ mesh.halfedges = pre.halfedges
         /\ mesh.edges = pre.edges

\* C28 as stated: for each consecutive pair (v_from, v_to) of a make_face
\* list along which the mesh has a half-edge with no face, make_face takes a
\* half-edge with no face running v_from -> v_to and does not fail as
\* non-manifold on that pair, also when another half-edge along the pair has
\* a face.
FreeAlong(m, v_from, v_to) ==
    {h \in 1..Len(m.halfedges) :
       HalfEdgeRuns(m, h, v_from, v_to) /\ m.halfedges[h].face = None}

C28_AsStated ==
    \A vertices \in AnyFaceLists :
      (Len(vertices) >= 3 /\ AllPresent(mesh, vertices) /\ NoRepeat(vertices))
        => LET r == resolve_halfedges(mesh, vertices, 1, <<>>)
               k == Len(r.face_halfedges)
           IN \A i \in 1..Len(vertices) :
                LET free == FreeAlong(mesh, vertices[i],
                                      vertices[(i % Len(vertices)) + 1])
                IN free # {}
                     => /\ i <= k => r.face_halfedges[i] \in free
                        /\ ~(i = k + 1 /\ r.res # Ok)

\* C29: with make_edge(v1 # v2) and vertex lists without repeats, for every
\* vertex v with an outgoing half-edge, vertex_outgoing(v) yields at least
\* one half-edge, the first is v's stored outgoing half-edge, each one has
\* origin v, and none comes twice.
C29_OneRing ==
    \A v \in 1..Len(mesh.vertices) :
      mesh.vertices[v].halfedge # None
        => LET items == VertexOutgoing(mesh, v).items
           IN /\ Len(items) >= 1
              /\ items[1] = mesh.vertices[v].halfedge
              /\ \A i \in 1..Len(items) : mesh.halfedges[items[i]].origin = v
              /\ \A i, j \in 1..Len(items) : i # j => items[i] # items[j]

\* C29 happens: a vertex between two faces, whose iteration yields two
\* half-edges and ends.
C29_Witness ==
    /\ Len(mesh.faces) = 2
    /\ \E v \in 1..Len(mesh.vertices) :
         /\ mesh.vertices[v].halfedge # None
         /\ VertexOutgoing(mesh, v).ended
         /\ Len(VertexOutgoing(mesh, v).items) = 2

\* C30: with make_edge(v1 # v2) and vertex lists without repeats,
\* edge_faces(e) is the faces of e's two half-edges, which are the faces
\* whose loop runs along e; an edge a make_face call created reports that
\* face and no other; no edge reports the same face on both sides; and a
\* handle of no edge reports (None, None).
EdgeUsers(m, e) ==
    {f \in 1..Len(m.faces) : \E h \in FaceCycle(m, f) : m.halfedges[h].edge = e}

C30_EdgeFaces ==
    /\ \A e \in 1..Len(mesh.edges) :
         LET faces == edge_faces(mesh, e)
         IN /\ faces[1] = mesh.halfedges[mesh.edges[e].halfedge_a].face
            /\ faces[2] = mesh.halfedges[mesh.edges[e].halfedge_b].face
            /\ {faces[1], faces[2]} \ {None} = EdgeUsers(mesh, e)
            /\ faces[1] # None => faces[1] # faces[2]
    /\ (last.op = "make_face" /\ last.res = Ok)
         => \A e \in (Len(pre.edges) + 1)..Len(mesh.edges) :
              LET faces == edge_faces(mesh, e)
              IN /\ last.ret \in {faces[1], faces[2]}
                 /\ None \in {faces[1], faces[2]}
    /\ edge_faces(mesh, Len(mesh.edges) + 1) = <<None, None>>

\* C30 happens: a make_face call took an edge that was there and created
\* another; both report the new face on one side only.
C30_Witness ==
    /\ last.op = "make_face" /\ last.res = Ok
    /\ Len(pre.edges) >= 1
    /\ Len(mesh.edges) > Len(pre.edges)
    /\ edge_faces(mesh, Len(mesh.edges)) = <<last.ret, None>>
    /\ edge_faces(mesh, 1) = <<last.ret, None>>

====
